---- MODULE Spec2Model ----
(***************************************************************************)
(* Model of the adaptive caching layer of the ESPN MCP server:             *)
(*   src/espn-api.js        ESPN provider (fetchWithCache, getCurrentGame, *)
(*                          getScoreboard, getTeamSchedule, getRankings)   *)
(*   src/cfbd-api.js        CFBD provider (getCached/setCache helpers)     *)
(*   src/unnamed/part_000   NCAA provider (getCached/setCache helpers)     *)
(* Time is in milliseconds, as Date.now().  A data function that awaits an *)
(* upstream HTTP request is split at the await: the call step issues the   *)
(* request, the response step runs the rest of the function.               *)
(***************************************************************************)
EXTENDS Integers, Sequences, FiniteSets, TLC

VARIABLES now, ticks, espnCache, cfbdCache, ncaaCache, apiKey, reqs, last

vars == <<now, ticks, espnCache, cfbdCache, ncaaCache, apiKey, reqs, last>>

(* ------------------------------ bounds --------------------------------- *)
MaxTicks == 2
MaxReqs == 2
MaxEvents == 1
MaxListed == 2

Reqs == 1..MaxReqs

\* amounts by which the clock advances between two steps (ms)
GameSteps == {30000, 60000, 86400000}
BoardSteps == {30000, 60000, 900000}
CfbdSteps == {30000, 21600000, 86400000}
NcaaSteps == {30000, 300000}

(* --------------------------- program constants ------------------------- *)
\* variant: the live duration as long as a day
LIVE_GAME_Day == 24 * 60 * 60 * 1000

LIVE_GAME == 1 * 60 * 1000
COMPLETED_GAME == 24 * 60 * 60 * 1000
UPCOMING_GAME == 6 * 60 * 60 * 1000
SCHEDULE == 24 * 60 * 60 * 1000
SCOREBOARD == 1 * 60 * 1000
SCOREBOARD_NO_LIVE == 15 * 60 * 1000
RANKINGS == 24 * 60 * 60 * 1000

(* ------------------------------ values --------------------------------- *)
\* JavaScript null / undefined as returned values
NullValue == [null |-> TRUE]
NoValue == [none |-> TRUE]
Undefined == "undefined"

IsNull(v) == "null" \in DOMAIN v

\* a Map: a function whose domain is the set of keys present
EmptyMap == <<>>
Has(m, k) == k \in DOMAIN m
Put(m, k, e) == [x \in (DOMAIN m) \cup {k} |-> IF x = k THEN e ELSE m[x]]
Delete(m, k) == [x \in (DOMAIN m) \ {k} |-> m[x]]

(* --------------------------- team mapping ------------------------------ *)
TeamNames == {"oklahoma", "nowhere"}
Sport == "football"
NoId == "noid"

\* getTeamId of team-mapping.js: the id of a known team, nothing otherwise
getTeamId(teamName) == IF teamName = "oklahoma" THEN "201" ELSE NoId

(* ------------------------ upstream ESPN records ------------------------ *)
RawStates == {"pre", "in", "post"}

\* a raw ESPN event as upstream sends it
RawEvent(d, s) ==
    IF s = Undefined
      THEN [date |-> d]
      ELSE [date |-> d, status |-> [type |-> [state |-> s]]]

Dates == 1..MaxEvents

RECURSIVE EventSeqs(_)
EventSeqs(n) ==
    IF n = 0 THEN {<<>>}
    ELSE LET shorter == EventSeqs(n - 1)
         IN shorter \cup
            { Append(s, RawEvent(d, st)) :
                s \in {x \in shorter : Len(x) = n - 1},
                d \in Dates, st \in RawStates \cup {Undefined} }

DistinctDates(s) == \A i, j \in 1..Len(s) : i # j => s[i].date # s[j].date

\* the event lists upstream may send: at most MaxEvents events, any order
EventLists == {x \in EventSeqs(MaxEvents) : DistinctDates(x)}

\* an event with the time its HTTP response was received (history only)
Received(e, t) ==
    IF "status" \in DOMAIN e
      THEN [date |-> e.date, recv |-> t, status |-> e.status]
      ELSE [date |-> e.date, recv |-> t]

ReceivedAll(s, t) == [i \in 1..Len(s) |-> Received(s[i], t)]

\* bodies of a 2xx answer to .../teams/{id}/schedule received at time t
ScheduleResponses(t) ==
    { [team |-> "201", events |-> ReceivedAll(s, t)] : s \in EventLists }
    \cup { [team |-> "201"] }

\* longer schedules: at most MaxListed events of a known state, any order
ListedDates == 1..MaxListed

RECURSIVE ListedSeqs(_)
ListedSeqs(n) ==
    IF n = 0 THEN {<<>>}
    ELSE LET shorter == ListedSeqs(n - 1)
         IN shorter \cup
            { Append(s, RawEvent(d, st)) :
                s \in {x \in shorter : Len(x) = n - 1},
                d \in ListedDates, st \in RawStates }

ListedLists == {x \in ListedSeqs(MaxListed) : DistinctDates(x)}

ListedResponses(t) ==
    { [team |-> "201", events |-> ReceivedAll(s, t)] : s \in ListedLists }

\* bodies of a 2xx answer to .../scoreboard received at time t
ScoreboardResponses(t) ==
    { [events |-> ReceivedAll(s, t)] : s \in EventLists }
    \cup { [day |-> "off"] }

\* bodies of a 2xx answer to .../rankings
RankingsResponses ==
    { [rankings |-> <<>>], [rankings |-> <<[name |-> "AP Top 25"]>>], [season |-> 1] }

(* ----------------------------- ESPN module ----------------------------- *)
\* event.status?.type?.state
RawState(event) ==
    IF "status" \in DOMAIN event
      THEN IF "type" \in DOMAIN event.status
             THEN IF "state" \in DOMAIN event.status.type
                    THEN event.status.type.state
                    ELSE Undefined
             ELSE Undefined
      ELSE Undefined

\* x.status?.state
StatusState(x) ==
    IF "status" \in DOMAIN x
      THEN IF "state" \in DOMAIN x.status THEN x.status.state ELSE Undefined
      ELSE Undefined

parseGameData(event) ==
    [date |-> event.date, status |-> [state |-> RawState(event)], recv |-> event.recv]

\* data.events || []
EventsOf(data) == IF "events" \in DOMAIN data THEN data.events ELSE <<>>

MapSeq(f(_), s) == [i \in 1..Len(s) |-> f(s[i])]

\* indices of the events of s whose raw state is st, in list order
IndicesIn(s, st) == {i \in 1..Len(s) : RawState(s[i]) = st}
Min(S) == CHOOSE x \in S : \A y \in S : x <= y

scheduleKey(teamId) == <<"schedule", teamId, Sport>>

\* variant: the current game kept under the key of the schedule
currentGameKey_AsSchedule(teamId) == <<"schedule", teamId, Sport>>

currentGameKey(teamId) == <<"current-game", teamId, Sport>>

scoreboardKey == <<"scoreboard", Sport, "today">>
rankingsKey == <<"rankings", Sport>>

\* variant: the age comparison reversed
fetchWithCacheHit_Reversed(cache, cacheKey, cacheDuration, t) ==
    /\ Has(cache, cacheKey)
    /\ t - cache[cacheKey].timestamp > cacheDuration

\* the freshness test of fetchWithCache
fetchWithCacheHit(cache, cacheKey, cacheDuration, t) ==
    /\ Has(cache, cacheKey)
    /\ t - cache[cacheKey].timestamp < cacheDuration

\* variant: the live duration taken in seconds instead of milliseconds
gameCacheDuration_Seconds(cachedGame) ==
    IF StatusState(cachedGame) = "in" THEN LIVE_GAME \div 1000
    ELSE IF StatusState(cachedGame) = "post" THEN COMPLETED_GAME
    ELSE UPCOMING_GAME

\* variant: a completed game given the duration of a live one
gameCacheDuration_PostAsLive(cachedGame) ==
    IF StatusState(cachedGame) \in {"in", "post"} THEN LIVE_GAME
    ELSE UPCOMING_GAME

\* the cache duration getCurrentGame selects from a cached game
gameCacheDuration(cachedGame) ==
    IF StatusState(cachedGame) = "in" THEN LIVE_GAME
    ELSE IF StatusState(cachedGame) = "post" THEN COMPLETED_GAME
    ELSE UPCOMING_GAME

\* the first check of getCurrentGame: a cached game still valid
currentGameHit(cache, cacheKey, t) ==
    /\ Has(cache, cacheKey)
    /\ t - cache[cacheKey].timestamp < gameCacheDuration(cache[cacheKey].data)

\* variant: the first event is taken when no event is live, completed or upcoming
selectCurrentGame_AnyEvent(cache, cacheKey, scheduleData, t) ==
    LET events == EventsOf(scheduleData)
        live == IndicesIn(events, "in")
        completed == IndicesIn(events, "post")
        upcoming == IndicesIn(events, "pre")
        Store(i) ==
            LET parsedGame == parseGameData(events[i])
            IN [cache |-> Put(cache, cacheKey,
                              [data |-> parsedGame, timestamp |-> t]),
                outcome |-> "value", value |-> parsedGame]
    IN IF Len(events) = 0
         THEN [cache |-> cache, outcome |-> "null", value |-> NullValue]
       ELSE IF live # {} THEN Store(Min(live))
       ELSE IF completed # {} THEN Store(Min(completed))
       ELSE IF upcoming # {} THEN Store(Min(upcoming))
       ELSE Store(1)

\* variant: a completed event looked for before a live one
selectCurrentGame_CompletedFirst(cache, cacheKey, scheduleData, t) ==
    LET events == EventsOf(scheduleData)
        live == IndicesIn(events, "in")
        completed == IndicesIn(events, "post")
        upcoming == IndicesIn(events, "pre")
        Store(i) ==
            LET parsedGame == parseGameData(events[i])
            IN [cache |-> Put(cache, cacheKey,
                              [data |-> parsedGame, timestamp |-> t]),
                outcome |-> "value", value |-> parsedGame]
    IN IF Len(events) = 0
         THEN [cache |-> cache, outcome |-> "null", value |-> NullValue]
       ELSE IF completed # {} THEN Store(Min(completed))
       ELSE IF live # {} THEN Store(Min(live))
       ELSE IF upcoming # {} THEN Store(Min(upcoming))
       ELSE [cache |-> cache, outcome |-> "null", value |-> NullValue]

\* getCurrentGame from the schedule data on: selection, cache.set, return
selectCurrentGame(cache, cacheKey, scheduleData, t) ==
    LET events == EventsOf(scheduleData)
        live == IndicesIn(events, "in")
        completed == IndicesIn(events, "post")
        upcoming == IndicesIn(events, "pre")
        Store(i) ==
            LET parsedGame == parseGameData(events[i])
            IN [cache |-> Put(cache, cacheKey,
                              [data |-> parsedGame, timestamp |-> t]),
                outcome |-> "value", value |-> parsedGame]
    IN IF Len(events) = 0
         THEN [cache |-> cache, outcome |-> "null", value |-> NullValue]
       ELSE IF live # {} THEN Store(Min(live))
       ELSE IF completed # {} THEN Store(Min(completed))
       ELSE IF upcoming # {} THEN Store(Min(upcoming))
       ELSE [cache |-> cache, outcome |-> "null", value |-> NullValue]

\* what getTeamSchedule returns from the schedule data
scheduleResult(data) ==
    [team |-> data.team, events |-> EventsOf(data), sport |-> Sport]

\* what getRankings returns from the rankings data
rankingsResult(data) ==
    IF "rankings" \notin DOMAIN data THEN NullValue
    ELSE IF Len(data.rankings) = 0 THEN NullValue
    ELSE [rankings |-> data.rankings, sport |-> Sport]

\* cached.data.events?.some(event => event.status?.state === 'in')
hasLiveGames(data) ==
    IF "events" \in DOMAIN data
      THEN \E i \in 1..Len(data.events) : StatusState(data.events[i]) = "in"
      ELSE FALSE

scoreboardCacheDuration(data) ==
    IF hasLiveGames(data) THEN SCOREBOARD ELSE SCOREBOARD_NO_LIVE

\* the first check of getScoreboard: a cached scoreboard still valid
scoreboardHit(cache, cacheKey, t) ==
    /\ Has(cache, cacheKey)
    /\ t - cache[cacheKey].timestamp < scoreboardCacheDuration(cache[cacheKey].data)

\* what getScoreboard returns from freshly fetched data
scoreboardResult(data) ==
    [events |-> MapSeq(parseGameData, EventsOf(data)), sport |-> Sport]

(* ----------------------------- CFBD module ----------------------------- *)
RECRUITING == 24 * 60 * 60 * 1000

CfbdNames == {"oklahoma", "ou"}
Year == 2025

\* normalizeTeamName: the name CFBD uses, the given name when unmapped
normalizeTeamName(teamName) ==
    IF teamName \in {"oklahoma", "ou", "sooners"} THEN "Oklahoma" ELSE teamName

recruitingKey(team, year) == <<"recruiting", team, year>>

\* bodies of a 2xx answer to /recruiting/teams
RecruitingResponses ==
    { <<>> } \cup { <<[team |-> "Oklahoma", rank |-> k]>> : k \in 1..2 }

\* getCached of cfbd-api.js: the store after the lookup and whether it hit
getCached(cache, key, maxAge, t) ==
    IF ~Has(cache, key) THEN [cache |-> cache, hit |-> FALSE]
    ELSE IF t - cache[key].timestamp > maxAge
      THEN [cache |-> Delete(cache, key), hit |-> FALSE]
    ELSE [cache |-> cache, hit |-> TRUE]

\* setCache of cfbd-api.js
setCache(cache, key, data, t) == Put(cache, key, [data |-> data, timestamp |-> t])

ErrorResult(msg) == [error |-> TRUE, message |-> msg]
IsErrorResult(v) == "error" \in DOMAIN v

BETTING == 60 * 60 * 1000

\* bodies of a 2xx answer to /lines
BettingResponses ==
    { <<>> } \cup { <<[homeTeam |-> "Oklahoma", spread |-> k]>> : k \in 1..2 }

\* the result getBettingLines builds from the games
bettingResult(team, data) ==
    [team |-> team,
     games |-> [i \in 1..Len(data) |->
                  [homeTeam |-> data[i].homeTeam, spread |-> data[i].spread]]]

\* the result getRecruiting builds from data[0]
recruitingResult(data) == [team |-> data[1].team, year |-> Year, rank |-> data[1].rank]

(* ----------------------------- NCAA module ----------------------------- *)
NCAA_SCOREBOARD == 5 * 60 * 1000
NCAA_RANKINGS == 24 * 60 * 60 * 1000

ncaaScoreboardKey == <<"ncaa_scoreboard", Sport, "fbs", "today">>

\* bodies of a 2xx answer to the NCAA scoreboard url
NcaaResponses ==
    { [events |-> <<>>], [day |-> "off"] }
    \cup { [events |-> <<[name |-> "game", state |-> st]>>] : st \in {"in", "post"} }

\* getCached of the NCAA module
ncaaGetCached(cache, key, maxAge, t) ==
    IF ~Has(cache, key) THEN [cache |-> cache, hit |-> FALSE]
    ELSE IF t - cache[key].timestamp > maxAge
      THEN [cache |-> Delete(cache, key), hit |-> FALSE]
    ELSE [cache |-> cache, hit |-> TRUE]

\* setCache of the NCAA module
ncaaSetCache(cache, key, data, t) == Put(cache, key, [data |-> data, timestamp |-> t])

ncaaGame(event) == [name |-> event.name, isLive |-> event.state = "in"]

\* the result getNCAAScoreboard builds from the events
ncaaScoreboardResult(data) ==
    [sport |-> Sport, division |-> "FBS", games |-> MapSeq(ncaaGame, data.events)]

(* --------------------------- request records --------------------------- *)
Idle == [pc |-> "idle", fn |-> "none", team |-> "none"]
Awaiting(fn, team) == [pc |-> "await", fn |-> fn, team |-> team]

\* the last step taken: which function, whether it ran from the call ("call"),
\* from a 2xx answer to its upstream request ("resume") or from a failed
\* upstream request ("fail"), and how it ended: "pending" at an await,
\* "value" or "null" for a normal return, "throw" for a raised error
Event(op, phase, team, outcome, value) ==
    [op |-> op, phase |-> phase, team |-> team, outcome |-> outcome, value |-> value]

\* variant: a call is admitted only when no other call is waiting
FreeSlot_Exclusive(r) == r = 1 /\ \A q \in Reqs : reqs[q].pc = "idle"

\* a new call takes the lowest free request slot
FreeSlot(r) == reqs[r].pc = "idle" /\ \A q \in Reqs : reqs[q].pc = "idle" => r <= q

\* the entry under key k, NoValue when absent
EntryAt(cache, k) == IF Has(cache, k) THEN cache[k] ELSE NoValue

\* a pending call of a getCached-based function; prior is the entry its key
\* had when the call was made (history only)
AwaitingWith(fn, team, prior) ==
    [pc |-> "await", fn |-> fn, team |-> team, prior |-> prior]

\* the step that handles the failed upstream request of such a call
FailEvent(op, team, value, key, prior) ==
    [op |-> op, phase |-> "fail", team |-> team, outcome |-> "value", value |-> value,
     key |-> key, prior |-> prior]

TeamNotFound == [error |-> "Team not found"]
ApiError == [error |-> "ESPN API error"]

(* -------------------------------- Init --------------------------------- *)
Init ==
    /\ now = 0
    /\ ticks = 0
    /\ espnCache = EmptyMap
    /\ cfbdCache = EmptyMap
    /\ ncaaCache = EmptyMap
    /\ apiKey \in BOOLEAN
    /\ reqs = [r \in Reqs |-> Idle]
    /\ last = Event("init", "none", "none", "none", NoValue)

(* ------------------------------- actions ------------------------------- *)
\* Date.now() advances by one of the given amounts
TickBy(steps) ==
    /\ ticks < MaxTicks
    /\ \E d \in steps : now' = now + d
    /\ ticks' = ticks + 1
    /\ last' = Event("Tick", "none", "none", "none", NoValue)
    /\ UNCHANGED <<espnCache, cfbdCache, ncaaCache, apiKey, reqs>>

TickGame == TickBy(GameSteps)
TickBoard == TickBy(BoardSteps)

\* variant: the failed request is sent again and the call keeps waiting
failESPN_Retry(r) ==
    /\ reqs[r].pc = "await"
    /\ reqs[r].fn \in {"getTeamSchedule", "getCurrentGame", "getScoreboard", "getRankings"}
    /\ last' = Event(reqs[r].fn, "fail", reqs[r].team, "pending", NoValue)
    /\ UNCHANGED <<now, ticks, espnCache, cfbdCache, ncaaCache, apiKey, reqs>>

\* fetch(url) rejects or answers with a non-2xx status: fetchWithCache throws
\* and the awaiting ESPN function throws with it
failESPN(r) ==
    /\ reqs[r].pc = "await"
    /\ reqs[r].fn \in {"getTeamSchedule", "getCurrentGame", "getScoreboard", "getRankings"}
    /\ last' = Event(reqs[r].fn, "fail", reqs[r].team, "throw", ApiError)
    /\ reqs' = [reqs EXCEPT ![r] = Idle]
    /\ UNCHANGED <<now, ticks, espnCache, cfbdCache, ncaaCache, apiKey>>

\* getTeamSchedule(teamName) up to its return or its await of fetch(url)
getTeamSchedule(r, teamName) ==
    /\ FreeSlot(r)
    /\ LET teamId == getTeamId(teamName)
           key == scheduleKey(teamId)
       IN IF teamId = NoId
            THEN /\ last' = Event("getTeamSchedule", "call", teamName, "throw", TeamNotFound)
                 /\ UNCHANGED reqs
          ELSE IF fetchWithCacheHit(espnCache, key, SCHEDULE, now)
            THEN /\ last' = Event("getTeamSchedule", "call", teamName, "value",
                                  scheduleResult(espnCache[key].data))
                 /\ UNCHANGED reqs
          ELSE /\ reqs' = [reqs EXCEPT ![r] = Awaiting("getTeamSchedule", teamName)]
               /\ last' = Event("getTeamSchedule", "call", teamName, "pending", NoValue)
    /\ UNCHANGED <<now, ticks, espnCache, cfbdCache, ncaaCache, apiKey>>

\* variant: an entry another call stored at the same time is kept
resumeTeamSchedule_KeepFirst(r) ==
    /\ reqs[r].pc = "await"
    /\ reqs[r].fn = "getTeamSchedule"
    /\ \E data \in ScheduleResponses(now) :
         /\ espnCache' =
              (IF fetchWithCacheHit(espnCache, scheduleKey(getTeamId(reqs[r].team)),
                                    SCHEDULE, now)
                 THEN espnCache
                 ELSE Put(espnCache, scheduleKey(getTeamId(reqs[r].team)),
                          [data |-> data, timestamp |-> now]))
         /\ last' = Event("getTeamSchedule", "resume", reqs[r].team, "value",
                          scheduleResult(data))
    /\ reqs' = [reqs EXCEPT ![r] = Idle]
    /\ UNCHANGED <<now, ticks, cfbdCache, ncaaCache, apiKey>>

\* a 2xx answer to the fetch of getTeamSchedule and the rest of the call
resumeTeamSchedule(r) ==
    /\ reqs[r].pc = "await"
    /\ reqs[r].fn = "getTeamSchedule"
    /\ \E data \in ScheduleResponses(now) :
         /\ espnCache' = Put(espnCache, scheduleKey(getTeamId(reqs[r].team)),
                             [data |-> data, timestamp |-> now])
         /\ last' = Event("getTeamSchedule", "resume", reqs[r].team, "value",
                          scheduleResult(data))
    /\ reqs' = [reqs EXCEPT ![r] = Idle]
    /\ UNCHANGED <<now, ticks, cfbdCache, ncaaCache, apiKey>>

\* getCurrentGame(teamName) up to its return or its await of fetch(url)
getCurrentGame(r, teamName) ==
    /\ FreeSlot(r)
    /\ LET teamId == getTeamId(teamName)
           cacheKey == currentGameKey(teamId)
           sKey == scheduleKey(teamId)
       IN IF teamId = NoId
            THEN /\ last' = Event("getCurrentGame", "call", teamName, "throw", TeamNotFound)
                 /\ UNCHANGED <<reqs, espnCache>>
          ELSE IF currentGameHit(espnCache, cacheKey, now)
            THEN /\ last' = Event("getCurrentGame", "call", teamName, "value",
                                  espnCache[cacheKey].data)
                 /\ UNCHANGED <<reqs, espnCache>>
          ELSE IF fetchWithCacheHit(espnCache, sKey, SCHEDULE, now)
            THEN LET res == selectCurrentGame(espnCache, cacheKey, espnCache[sKey].data, now)
                 IN /\ espnCache' = res.cache
                    /\ last' = Event("getCurrentGame", "call", teamName, res.outcome, res.value)
                    /\ UNCHANGED reqs
          ELSE /\ reqs' = [reqs EXCEPT ![r] = Awaiting("getCurrentGame", teamName)]
               /\ last' = Event("getCurrentGame", "call", teamName, "pending", NoValue)
               /\ UNCHANGED espnCache
    /\ UNCHANGED <<now, ticks, cfbdCache, ncaaCache, apiKey>>

\* a 2xx answer to the fetch of getCurrentGame, its body one of responses,
\* and the rest of the call
resumeCurrentGameWith(r, responses) ==
    /\ reqs[r].pc = "await"
    /\ reqs[r].fn = "getCurrentGame"
    /\ \E data \in responses :
         LET teamId == getTeamId(reqs[r].team)
             stored == Put(espnCache, scheduleKey(teamId), [data |-> data, timestamp |-> now])
             res == selectCurrentGame(stored, currentGameKey(teamId), data, now)
         IN /\ espnCache' = res.cache
            /\ last' = Event("getCurrentGame", "resume", reqs[r].team, res.outcome, res.value)
    /\ reqs' = [reqs EXCEPT ![r] = Idle]
    /\ UNCHANGED <<now, ticks, cfbdCache, ncaaCache, apiKey>>

resumeCurrentGame(r) == resumeCurrentGameWith(r, ScheduleResponses(now))

\* the same with the longer schedules
resumeCurrentGameListed(r) == resumeCurrentGameWith(r, ListedResponses(now))

\* the clock steps over the TTL of a live game
TickSelect == TickBy({60000})

\* getScoreboard() up to its return or its await of fetch(url)
getScoreboard(r) ==
    /\ FreeSlot(r)
    /\ IF scoreboardHit(espnCache, scoreboardKey, now)
         THEN /\ last' = Event("getScoreboard", "call", "none", "value",
                               espnCache[scoreboardKey].data)
              /\ UNCHANGED reqs
       ELSE IF fetchWithCacheHit(espnCache, scoreboardKey, SCOREBOARD, now)
         THEN /\ last' = Event("getScoreboard", "call", "none", "value",
                               scoreboardResult(espnCache[scoreboardKey].data))
              /\ UNCHANGED reqs
       ELSE /\ reqs' = [reqs EXCEPT ![r] = Awaiting("getScoreboard", "none")]
            /\ last' = Event("getScoreboard", "call", "none", "pending", NoValue)
    /\ UNCHANGED <<now, ticks, espnCache, cfbdCache, ncaaCache, apiKey>>

\* a 2xx answer to the fetch of getScoreboard and the rest of the call
resumeScoreboard(r) ==
    /\ reqs[r].pc = "await"
    /\ reqs[r].fn = "getScoreboard"
    /\ \E data \in ScoreboardResponses(now) :
         /\ espnCache' = Put(espnCache, scoreboardKey, [data |-> data, timestamp |-> now])
         /\ last' = Event("getScoreboard", "resume", "none", "value", scoreboardResult(data))
    /\ reqs' = [reqs EXCEPT ![r] = Idle]
    /\ UNCHANGED <<now, ticks, cfbdCache, ncaaCache, apiKey>>

\* "null" for a null return, "value" otherwise
OutcomeOf(v) == IF IsNull(v) THEN "null" ELSE "value"

\* getRankings() up to its return or its await of fetch(url)
getRankings(r) ==
    /\ FreeSlot(r)
    /\ IF fetchWithCacheHit(espnCache, rankingsKey, RANKINGS, now)
         THEN /\ last' = Event("getRankings", "call", "none",
                               OutcomeOf(rankingsResult(espnCache[rankingsKey].data)),
                               rankingsResult(espnCache[rankingsKey].data))
              /\ UNCHANGED reqs
       ELSE /\ reqs' = [reqs EXCEPT ![r] = Awaiting("getRankings", "none")]
            /\ last' = Event("getRankings", "call", "none", "pending", NoValue)
    /\ UNCHANGED <<now, ticks, espnCache, cfbdCache, ncaaCache, apiKey>>

\* a 2xx answer to the fetch of getRankings and the rest of the call
resumeRankings(r) ==
    /\ reqs[r].pc = "await"
    /\ reqs[r].fn = "getRankings"
    /\ \E data \in RankingsResponses :
         /\ espnCache' = Put(espnCache, rankingsKey, [data |-> data, timestamp |-> now])
         /\ last' = Event("getRankings", "resume", "none",
                          OutcomeOf(rankingsResult(data)), rankingsResult(data))
    /\ reqs' = [reqs EXCEPT ![r] = Idle]
    /\ UNCHANGED <<now, ticks, cfbdCache, ncaaCache, apiKey>>

\* variant: the upstream request is sent whether or not a key is configured
getRecruiting_NoKeyCheck(r, teamName) ==
    /\ FreeSlot(r)
    /\ LET team == normalizeTeamName(teamName)
           cached == getCached(cfbdCache, recruitingKey(team, Year), RECRUITING, now)
       IN /\ cfbdCache' = cached.cache
          /\ IF cached.hit
               THEN /\ last' = Event("getRecruiting", "call", teamName, "value",
                                     cfbdCache[recruitingKey(team, Year)].data)
                    /\ UNCHANGED reqs
             ELSE /\ reqs' = [reqs EXCEPT ![r] =
                               AwaitingWith("getRecruiting", teamName,
                                            EntryAt(cfbdCache, recruitingKey(team, Year)))]
                  /\ last' = Event("getRecruiting", "call", teamName, "pending", NoValue)
    /\ UNCHANGED <<now, ticks, espnCache, ncaaCache, apiKey>>

\* getRecruiting(teamName) up to its return or its await of fetch(url)
getRecruiting(r, teamName) ==
    /\ FreeSlot(r)
    /\ LET team == normalizeTeamName(teamName)
           cached == getCached(cfbdCache, recruitingKey(team, Year), RECRUITING, now)
       IN /\ cfbdCache' = cached.cache
          /\ IF cached.hit
               THEN /\ last' = Event("getRecruiting", "call", teamName, "value",
                                     cfbdCache[recruitingKey(team, Year)].data)
                    /\ UNCHANGED reqs
             ELSE IF ~apiKey
               THEN /\ last' = Event("getRecruiting", "call", teamName, "value",
                                     ErrorResult("Failed to get recruiting data"))
                    /\ UNCHANGED reqs
             ELSE /\ reqs' = [reqs EXCEPT ![r] =
                               AwaitingWith("getRecruiting", teamName,
                                            EntryAt(cfbdCache, recruitingKey(team, Year)))]
                  /\ last' = Event("getRecruiting", "call", teamName, "pending", NoValue)
    /\ UNCHANGED <<now, ticks, espnCache, ncaaCache, apiKey>>

\* a 2xx answer to the fetch of getRecruiting and the rest of the call
resumeRecruiting(r) ==
    /\ reqs[r].pc = "await"
    /\ reqs[r].fn = "getRecruiting"
    /\ \E data \in RecruitingResponses :
         IF Len(data) = 0
           THEN /\ cfbdCache' = cfbdCache
                /\ last' = Event("getRecruiting", "resume", reqs[r].team, "value",
                                 ErrorResult("No recruiting data found"))
           ELSE /\ cfbdCache' = setCache(cfbdCache,
                                         recruitingKey(normalizeTeamName(reqs[r].team), Year),
                                         recruitingResult(data), now)
                /\ last' = Event("getRecruiting", "resume", reqs[r].team, "value",
                                 recruitingResult(data))
    /\ reqs' = [reqs EXCEPT ![r] = Idle]
    /\ UNCHANGED <<now, ticks, espnCache, ncaaCache, apiKey>>

\* fetch(url) rejects or answers with a non-2xx status: fetchCFBD throws and
\* the catch of getRecruiting returns an error object
failRecruiting(r) ==
    /\ reqs[r].pc = "await"
    /\ reqs[r].fn = "getRecruiting"
    /\ last' = FailEvent("getRecruiting", reqs[r].team,
                         ErrorResult("Failed to get recruiting data"),
                         recruitingKey(normalizeTeamName(reqs[r].team), Year), reqs[r].prior)
    /\ reqs' = [reqs EXCEPT ![r] = Idle]
    /\ UNCHANGED <<now, ticks, espnCache, cfbdCache, ncaaCache, apiKey>>

TickCFBD == TickBy(CfbdSteps)

\* getBettingLines(teamName) up to its return or its await of fetch(url);
\* it looks nothing up in the store
getBettingLines(r, teamName) ==
    /\ FreeSlot(r)
    /\ IF ~apiKey
         THEN /\ last' = Event("getBettingLines", "call", teamName, "value",
                               ErrorResult("Failed to get betting lines"))
              /\ UNCHANGED reqs
         ELSE /\ reqs' = [reqs EXCEPT ![r] =
                           AwaitingWith("getBettingLines", teamName, NoValue)]
              /\ last' = Event("getBettingLines", "call", teamName, "pending", NoValue)
    /\ UNCHANGED <<now, ticks, espnCache, cfbdCache, ncaaCache, apiKey>>

\* a 2xx answer to the fetch of getBettingLines and the rest of the call;
\* nothing is stored
resumeBettingLines(r) ==
    /\ reqs[r].pc = "await"
    /\ reqs[r].fn = "getBettingLines"
    /\ \E data \in BettingResponses :
         last' = Event("getBettingLines", "resume", reqs[r].team, "value",
                       IF Len(data) = 0
                         THEN ErrorResult("No betting lines found")
                         ELSE bettingResult(normalizeTeamName(reqs[r].team), data))
    /\ reqs' = [reqs EXCEPT ![r] = Idle]
    /\ UNCHANGED <<now, ticks, espnCache, cfbdCache, ncaaCache, apiKey>>

\* fetch(url) rejects or answers with a non-2xx status: fetchCFBD throws and
\* the catch of getBettingLines returns an error object
failBettingLines(r) ==
    /\ reqs[r].pc = "await"
    /\ reqs[r].fn = "getBettingLines"
    /\ last' = Event("getBettingLines", "fail", reqs[r].team, "value",
                     ErrorResult("Failed to get betting lines"))
    /\ reqs' = [reqs EXCEPT ![r] = Idle]
    /\ UNCHANGED <<now, ticks, espnCache, cfbdCache, ncaaCache, apiKey>>

\* the clock steps below and up to the BETTING duration
TickBetting == TickBy({30000, 1800000, 3600000})

\* getNCAAScoreboard() up to its return or its await of fetch(url)
getNCAAScoreboard(r) ==
    /\ FreeSlot(r)
    /\ LET cached == ncaaGetCached(ncaaCache, ncaaScoreboardKey, NCAA_SCOREBOARD, now)
       IN /\ ncaaCache' = cached.cache
          /\ IF cached.hit
               THEN /\ last' = Event("getNCAAScoreboard", "call", "none", "value",
                                     ncaaCache[ncaaScoreboardKey].data)
                    /\ UNCHANGED reqs
               ELSE /\ reqs' = [reqs EXCEPT ![r] =
                                 AwaitingWith("getNCAAScoreboard", "none",
                                              EntryAt(ncaaCache, ncaaScoreboardKey))]
                    /\ last' = Event("getNCAAScoreboard", "call", "none", "pending", NoValue)
    /\ UNCHANGED <<now, ticks, espnCache, cfbdCache, apiKey>>

\* a 2xx answer to the fetch of getNCAAScoreboard and the rest of the call
resumeNCAAScoreboard(r) ==
    /\ reqs[r].pc = "await"
    /\ reqs[r].fn = "getNCAAScoreboard"
    /\ \E data \in NcaaResponses :
         IF Len(EventsOf(data)) = 0
           THEN /\ ncaaCache' = ncaaCache
                /\ last' = Event("getNCAAScoreboard", "resume", "none", "value",
                                 ErrorResult("No games found"))
           ELSE /\ ncaaCache' = ncaaSetCache(ncaaCache, ncaaScoreboardKey,
                                             ncaaScoreboardResult(data), now)
                /\ last' = Event("getNCAAScoreboard", "resume", "none", "value",
                                 ncaaScoreboardResult(data))
    /\ reqs' = [reqs EXCEPT ![r] = Idle]
    /\ UNCHANGED <<now, ticks, espnCache, cfbdCache, apiKey>>

\* fetch(url) rejects or answers with a non-2xx status: fetchNCAA throws and
\* the catch of getNCAAScoreboard returns an error object
failNCAAScoreboard(r) ==
    /\ reqs[r].pc = "await"
    /\ reqs[r].fn = "getNCAAScoreboard"
    /\ last' = FailEvent("getNCAAScoreboard", "none",
                         ErrorResult("Failed to get NCAA scoreboard"),
                         ncaaScoreboardKey, reqs[r].prior)
    /\ reqs' = [reqs EXCEPT ![r] = Idle]
    /\ UNCHANGED <<now, ticks, espnCache, cfbdCache, ncaaCache, apiKey>>

TickNCAA == TickBy(NcaaSteps)

(* ----------------------------- MCP endpoint ----------------------------- *)
\* process.env.MCP_API_KEY || 'default-key-change-me'
McpApiKey == "default-key-change-me"

\* an Authorization header as its first seven characters and the rest;
\* the empty sequence when the request has none
NoHeader == <<>>
AuthHeaders ==
    { NoHeader, <<"Bearer ", "default-key-change-me">>, <<"Bearer ", "guess">>,
      <<"Basic d", "efault-key-change-me">>, <<"bearer ", "default-key-change-me">> }

\* the tool of the request body; the empty string when it has none
NoTool == ""
Tools == { NoTool, "get_score", "frobnicate" }

\* authHeader.startsWith('Bearer ')
startsWithBearer(authHeader) == authHeader[1] = "Bearer "

\* authHeader.substring(7)
substring7(authHeader) == authHeader[2]

\* variant: any Bearer token is accepted
mcpStatus_AnyBearer(authHeader, tool) ==
    IF authHeader = NoHeader THEN 401
    ELSE IF ~startsWithBearer(authHeader) THEN 401
    ELSE IF tool = NoTool THEN 400
    ELSE IF tool \notin {"get_score", "score"} THEN 400
    ELSE 200

\* the status POST /mcp answers with before any data function is called,
\* 200 standing for a request that is routed to its data function
mcpStatus(authHeader, tool) ==
    IF authHeader = NoHeader THEN 401
    ELSE IF ~startsWithBearer(authHeader) THEN 401
    ELSE IF substring7(authHeader) # McpApiKey THEN 401
    ELSE IF tool = NoTool THEN 400
    ELSE IF tool \notin {"get_score", "score"} THEN 400
    ELSE 200

\* the step that answers a POST /mcp request without routing it
McpEvent(authHeader, tool, status) ==
    [op |-> "POST /mcp", phase |-> "call", team |-> "none", outcome |-> "value",
     value |-> [status |-> status, success |-> FALSE],
     authHeader |-> authHeader, tool |-> tool]

\* POST /mcp up to its answer or to the await of the data function it routes
\* to; the tool get_score calls getCurrentGame with the default team
postMcp(r, authHeader, tool) ==
    IF mcpStatus(authHeader, tool) # 200
      THEN /\ FreeSlot(r)
           /\ last' = McpEvent(authHeader, tool, mcpStatus(authHeader, tool))
           /\ UNCHANGED <<now, ticks, espnCache, cfbdCache, ncaaCache, apiKey, reqs>>
      ELSE getCurrentGame(r, "oklahoma")

\* what POST /clear-cache leaves for the history: its message and how many
\* of the three stores held an entry (history only)
Cleared(n) == [message |-> "All caches cleared successfully", held |-> n]

Held(cache) == IF DOMAIN cache = {} THEN 0 ELSE 1

\* variant: only the ESPN store is cleared
clearCache_EspnOnly ==
    /\ espnCache' = EmptyMap
    /\ last' = Event("clearCache", "call", "none", "value",
                     Cleared(Held(espnCache) + Held(cfbdCache) + Held(ncaaCache)))
    /\ UNCHANGED <<now, ticks, cfbdCache, ncaaCache, apiKey, reqs>>

\* POST /clear-cache: clearESPNCache(), clearCFBDCache(), clearNCAACache()
clearCache ==
    /\ espnCache' = EmptyMap
    /\ cfbdCache' = EmptyMap
    /\ ncaaCache' = EmptyMap
    /\ last' = Event("clearCache", "call", "none", "value",
                     Cleared(Held(espnCache) + Held(cfbdCache) + Held(ncaaCache)))
    /\ UNCHANGED <<now, ticks, apiKey, reqs>>

TickReset == TickBy({30000})

\* clearCache of espn-api.js: cache.clear() on the ESPN store
clearESPNCache ==
    /\ espnCache' = EmptyMap
    /\ last' = Event("clearESPNCache", "call", "none", "value", Cleared(Held(espnCache)))
    /\ UNCHANGED <<now, ticks, cfbdCache, ncaaCache, apiKey, reqs>>

\* variant: the ESPN store is cleared along with the CFBD store
clearCFBDCache_Shared ==
    /\ cfbdCache' = EmptyMap
    /\ espnCache' = EmptyMap
    /\ last' = Event("clearCFBDCache", "call", "none", "value", Cleared(Held(cfbdCache)))
    /\ UNCHANGED <<now, ticks, ncaaCache, apiKey, reqs>>

\* clearCache of cfbd-api.js: cache.clear() on the CFBD store
clearCFBDCache ==
    /\ cfbdCache' = EmptyMap
    /\ last' = Event("clearCFBDCache", "call", "none", "value", Cleared(Held(cfbdCache)))
    /\ UNCHANGED <<now, ticks, espnCache, ncaaCache, apiKey, reqs>>

\* clearCache of the NCAA module: cache.clear() on the NCAA store
clearNCAACache ==
    /\ ncaaCache' = EmptyMap
    /\ last' = Event("clearNCAACache", "call", "none", "value", Cleared(Held(ncaaCache)))
    /\ UNCHANGED <<now, ticks, espnCache, cfbdCache, apiKey, reqs>>

(* --------------------------- specifications ---------------------------- *)
\* the ESPN module never reads the CFBD key
InitESPN == Init /\ ~apiKey

\* the schedule and current-game functions of the ESPN module
NextGame ==
    \/ TickGame
    \/ \E r \in Reqs, t \in TeamNames : getTeamSchedule(r, t)
    \/ \E r \in Reqs : resumeTeamSchedule(r)
    \/ \E r \in Reqs, t \in TeamNames : getCurrentGame(r, t)
    \/ \E r \in Reqs : resumeCurrentGame(r)
    \/ \E r \in Reqs : failESPN(r)

SpecGame == InitESPN /\ [][NextGame]_vars

\* getCurrentGame of the known team on schedules of several events
NextSelect ==
    \/ TickSelect
    \/ \E r \in Reqs : getCurrentGame(r, "oklahoma")
    \/ \E r \in Reqs : resumeCurrentGameListed(r)
    \/ \E r \in Reqs : failESPN(r)

SpecSelect == InitESPN /\ [][NextSelect]_vars

\* the MCP endpoint in front of getCurrentGame
NextMcp ==
    \/ TickSelect
    \/ \E r \in Reqs, h \in AuthHeaders, t \in Tools : postMcp(r, h, t)
    \/ \E r \in Reqs : resumeCurrentGame(r)
    \/ \E r \in Reqs : failESPN(r)

SpecMcp == InitESPN /\ [][NextMcp]_vars

\* the requests alone, at one instant, where every upstream request is
\* eventually answered or fails
NextRoute ==
    \/ \E r \in Reqs, h \in AuthHeaders, t \in Tools : postMcp(r, h, t)
    \/ \E r \in Reqs : resumeCurrentGame(r)
    \/ \E r \in Reqs : failESPN(r)

FairMcp ==
    /\ InitESPN
    /\ [][NextRoute]_vars
    /\ \A r \in Reqs : WF_vars(resumeCurrentGame(r) \/ failESPN(r))

\* the scoreboard function of the ESPN module
NextBoard ==
    \/ TickBoard
    \/ \E r \in Reqs : getScoreboard(r)
    \/ \E r \in Reqs : resumeScoreboard(r)
    \/ \E r \in Reqs : failESPN(r)

SpecBoard == InitESPN /\ [][NextBoard]_vars

\* the functions of the ESPN module that pass a fixed TTL to fetchWithCache
NextStatic ==
    \/ TickGame
    \/ \E r \in Reqs, t \in TeamNames : getTeamSchedule(r, t)
    \/ \E r \in Reqs : resumeTeamSchedule(r)
    \/ \E r \in Reqs : getRankings(r)
    \/ \E r \in Reqs : resumeRankings(r)
    \/ \E r \in Reqs : failESPN(r)

SpecStatic == InitESPN /\ [][NextStatic]_vars

\* the CFBD module, with and without a configured key
NextCFBD ==
    \/ TickCFBD
    \/ \E r \in Reqs, t \in CfbdNames : getRecruiting(r, t)
    \/ \E r \in Reqs : resumeRecruiting(r)
    \/ \E r \in Reqs : failRecruiting(r)

SpecCFBD == Init /\ [][NextCFBD]_vars

\* the CFBD key is configured
InitReset == Init /\ apiKey

\* the betting lines of the CFBD module, with a configured key
NextBetting ==
    \/ TickBetting
    \/ \E r \in Reqs, t \in CfbdNames : getBettingLines(r, t)
    \/ \E r \in Reqs : resumeBettingLines(r)
    \/ \E r \in Reqs : failBettingLines(r)

SpecBetting == InitReset /\ [][NextBetting]_vars

\* the NCAA module
NextNCAA ==
    \/ TickNCAA
    \/ \E r \in Reqs : getNCAAScoreboard(r)
    \/ \E r \in Reqs : resumeNCAAScoreboard(r)
    \/ \E r \in Reqs : failNCAAScoreboard(r)

SpecNCAA == InitESPN /\ [][NextNCAA]_vars

\* one function of each provider and the reset of all stores
NextReset ==
    \/ TickReset
    \/ \E r \in Reqs : getScoreboard(r)
    \/ \E r \in Reqs : resumeScoreboard(r)
    \/ \E r \in Reqs : failESPN(r)
    \/ \E r \in Reqs : getRecruiting(r, "oklahoma")
    \/ \E r \in Reqs : resumeRecruiting(r)
    \/ \E r \in Reqs : failRecruiting(r)
    \/ \E r \in Reqs : getNCAAScoreboard(r)
    \/ \E r \in Reqs : resumeNCAAScoreboard(r)
    \/ \E r \in Reqs : failNCAAScoreboard(r)
    \/ clearCache

SpecReset == InitReset /\ [][NextReset]_vars

\* one function of each provider and the clearCache of each module
NextStores ==
    \/ TickReset
    \/ \E r \in Reqs : getScoreboard(r)
    \/ \E r \in Reqs : resumeScoreboard(r)
    \/ \E r \in Reqs : failESPN(r)
    \/ \E r \in Reqs : getRecruiting(r, "oklahoma")
    \/ \E r \in Reqs : resumeRecruiting(r)
    \/ \E r \in Reqs : failRecruiting(r)
    \/ \E r \in Reqs : getNCAAScoreboard(r)
    \/ \E r \in Reqs : resumeNCAAScoreboard(r)
    \/ \E r \in Reqs : failNCAAScoreboard(r)
    \/ clearESPNCache
    \/ clearCFBDCache
    \/ clearNCAACache

SpecStores == InitReset /\ [][NextStores]_vars

(* ------------------------------ properties ----------------------------- *)
\* the keys of the known team
SKey == <<"schedule", "201", "football">>
CKey == <<"current-game", "201", "football">>
BKey == <<"scoreboard", "football", "today">>
RKey == <<"rankings", "football">>

Day == 24 * 60 * 60 * 1000

\* now - timestamp of the entry under k
Age(cache, k) == now - cache[k].timestamp

\* the step just taken returned to its caller without an upstream request
\* and left store and pending requests as they were
ServedUntouched == espnCache' = espnCache /\ reqs' = reqs

\* the TTL the stated policy gives a stored game: 60 s live, 24 h completed,
\* 6 h anything else
StatedGameTTL(game) ==
    IF game.status.state = "in" THEN 60 * 1000
    ELSE IF game.status.state = "post" THEN 24 * 60 * 60 * 1000
    ELSE 6 * 60 * 60 * 1000

\* C1: a getTeamSchedule or getRankings call made while the entry of its key
\* is younger than the 24 h TTL returns the stored data, sends no upstream
\* request and leaves the store unchanged.
C1_StaticFreshServed ==
    [][ /\ ( /\ last'.op = "getTeamSchedule"
             /\ last'.team = "oklahoma"
             /\ last'.phase = "call"
             /\ SKey \in DOMAIN espnCache
             /\ Age(espnCache, SKey) < Day )
           => /\ last'.outcome = "value"
              /\ last'.value.team = espnCache[SKey].data.team
              /\ last'.value.events =
                   (IF "events" \in DOMAIN espnCache[SKey].data
                      THEN espnCache[SKey].data.events ELSE <<>>)
              /\ ServedUntouched
        /\ ( /\ last'.op = "getRankings"
             /\ last'.phase = "call"
             /\ RKey \in DOMAIN espnCache
             /\ Age(espnCache, RKey) < Day )
           => /\ last'.outcome \in {"value", "null"}
              /\ (last'.outcome = "value"
                    => last'.value.rankings = espnCache[RKey].data.rankings)
              /\ ServedUntouched
      ]_vars

\* C1 witness: a schedule returned from an entry stored some time ago
C1_Witness ==
    /\ last.op = "getTeamSchedule"
    /\ last.phase = "call"
    /\ last.outcome = "value"
    /\ SKey \in DOMAIN espnCache
    /\ Age(espnCache, SKey) >= 30000
    /\ Len(last.value.events) > 0

\* C2: a getCurrentGame call that finds a stored game younger than the TTL
\* of its state returns that game, sends no upstream request and writes
\* nothing.
C2_AdaptiveFreshServed ==
    [][ ( /\ last'.op = "getCurrentGame"
          /\ last'.team = "oklahoma"
          /\ last'.phase = "call"
          /\ CKey \in DOMAIN espnCache
          /\ Age(espnCache, CKey) < StatedGameTTL(espnCache[CKey].data) )
        => /\ last'.outcome = "value"
           /\ last'.value = espnCache[CKey].data
           /\ ServedUntouched
      ]_vars

\* C2 witness: a live game stored 30 s ago is returned from the cache
C2_Witness ==
    /\ last.op = "getCurrentGame"
    /\ last.phase = "call"
    /\ last.outcome = "value"
    /\ CKey \in DOMAIN espnCache
    /\ last.value = espnCache[CKey].data
    /\ last.value.status.state = "in"
    /\ Age(espnCache, CKey) = 30000

\* a stored scoreboard with a live event, as upstream marks it
ContainsLive(data) ==
    /\ "events" \in DOMAIN data
    /\ \E i \in 1..Len(data.events) :
         /\ "status" \in DOMAIN data.events[i]
         /\ data.events[i].status.type.state = "in"

\* C3: a getCurrentGame or getScoreboard call that finds its stored entry at
\* an age >= the TTL of the stored value's class sends an upstream request.
C3_ExpiredEntryFetches ==
    [][ /\ ( /\ last'.op = "getCurrentGame"
             /\ last'.team = "oklahoma"
             /\ last'.phase = "call"
             /\ CKey \in DOMAIN espnCache
             /\ Age(espnCache, CKey) >= StatedGameTTL(espnCache[CKey].data) )
           => (last'.outcome = "pending" /\ reqs' # reqs)
        /\ ( /\ last'.op = "getScoreboard"
             /\ last'.phase = "call"
             /\ BKey \in DOMAIN espnCache
             /\ Age(espnCache, BKey) >=
                  (IF ContainsLive(espnCache[BKey].data) THEN 60 * 1000 ELSE 15 * 60 * 1000) )
           => (last'.outcome = "pending" /\ reqs' # reqs)
      ]_vars

\* C4: a live game returned by getCurrentGame comes from an upstream response
\* received less than 60 s before the return.
C4_NoStaleLiveGame ==
    ( /\ last.op = "getCurrentGame"
      /\ last.outcome = "value"
      /\ last.value.status.state = "in" )
    => now - last.value.recv < 60 * 1000

\* C5: the TTL getCurrentGame applies is a function of the stored game's own
\* state alone: a call that finds a stored game is served from the cache
\* exactly when the game's age is below the TTL of its state, so a stored
\* completed game is served for 24 h whatever it replaced.
C5_TTLFromStoredState ==
    [][ ( /\ last'.op = "getCurrentGame"
          /\ last'.team = "oklahoma"
          /\ last'.phase = "call"
          /\ CKey \in DOMAIN espnCache )
        => ( ( /\ last'.outcome = "value"
               /\ last'.value = espnCache[CKey].data
               /\ ServedUntouched )
             <=> Age(espnCache, CKey) < StatedGameTTL(espnCache[CKey].data) )
      ]_vars

\* C5 witness: a completed game stored by a refresh 24 h after the start is
\* returned from the cache when older than the 60 s of a live game
C5_Witness ==
    /\ last.op = "getCurrentGame"
    /\ last.phase = "call"
    /\ last.outcome = "value"
    /\ CKey \in DOMAIN espnCache
    /\ last.value = espnCache[CKey].data
    /\ last.value.status.state = "post"
    /\ espnCache[CKey].timestamp >= Day
    /\ Age(espnCache, CKey) >= 60 * 1000

\* C6: a stored scoreboard with a live event is served from the cache only
\* while it is younger than 60 s.
C6_LiveScoreboardShortTTL ==
    ( /\ last.op = "getScoreboard"
      /\ last.phase = "call"
      /\ last.outcome = "value"
      /\ BKey \in DOMAIN espnCache
      /\ ContainsLive(espnCache[BKey].data) )
    => Age(espnCache, BKey) < 60 * 1000

\* C7: a data function whose upstream request failed raises an error to its
\* caller; it does not return normally.
C7_UpstreamFailureRaised ==
    last.phase = "fail" => last.outcome = "throw"

\* the store the function of the last step uses
StoreOf(op) ==
    IF op = "getRecruiting" THEN cfbdCache
    ELSE IF op = "getNCAAScoreboard" THEN ncaaCache
    ELSE espnCache

\* C8: when the upstream request of a call fails, the entry its key had when
\* the call was made is still there, neither deleted nor changed (unless a
\* later successful response has replaced it).
C8_FailureLeavesEntry ==
    ( /\ last.phase = "fail"
      /\ "prior" \in DOMAIN last
      /\ "timestamp" \in DOMAIN last.prior )
    => /\ last.key \in DOMAIN StoreOf(last.op)
       /\ StoreOf(last.op)[last.key].timestamp >= last.prior.timestamp
       /\ (StoreOf(last.op)[last.key].timestamp = last.prior.timestamp
             => StoreOf(last.op)[last.key] = last.prior)

\* the schedule data has no event that is live, completed or upcoming
NoCurrentEvent(data) ==
    \/ "events" \notin DOMAIN data
    \/ \A i \in 1..Len(data.events) :
         \/ "status" \notin DOMAIN data.events[i]
         \/ data.events[i].status.type.state \notin {"in", "post", "pre"}

\* C9: when getCurrentGame selects from a schedule with no events, or with no
\* live, completed or upcoming event, it returns null, raises nothing and
\* leaves the entry of the current-game key as it was.
C9_NoCurrentGameIsNull ==
    [][ ( /\ last'.op = "getCurrentGame"
          /\ last'.team = "oklahoma"
          /\ last'.phase \in {"call", "resume"}
          /\ last'.outcome # "pending"
          /\ ~ ( /\ CKey \in DOMAIN espnCache
                 /\ last'.phase = "call"
                 /\ Age(espnCache, CKey) < StatedGameTTL(espnCache[CKey].data) )
          /\ SKey \in DOMAIN espnCache'
          /\ NoCurrentEvent(espnCache'[SKey].data) )
        => /\ last'.outcome = "null"
           /\ last'.value = [null |-> TRUE]
           /\ (CKey \in DOMAIN espnCache') = (CKey \in DOMAIN espnCache)
           /\ (CKey \in DOMAIN espnCache => espnCache'[CKey] = espnCache[CKey])
      ]_vars

\* C9 witness: upstream answered with a schedule without events and
\* getCurrentGame returned null
C9_Witness ==
    /\ last.op = "getCurrentGame"
    /\ last.phase = "resume"
    /\ last.outcome = "null"
    /\ SKey \in DOMAIN espnCache
    /\ espnCache[SKey].timestamp = now
    /\ NoCurrentEvent(espnCache[SKey].data)
    /\ CKey \notin DOMAIN espnCache

\* C10: getCurrentGame and getTeamSchedule called with a team name that has
\* no team id return a no-data result and raise nothing.
C10_UnknownTeamNotRaised ==
    ( /\ last.op \in {"getCurrentGame", "getTeamSchedule"}
      /\ last.team = "nowhere" )
    => last.outcome \in {"null", "value"}

\* the kind of an outcome as its caller sees it: how the call ended and the
\* fields of what it handed over
Kind(e) == <<e.outcome, DOMAIN e.value>>

\* the step handled a successful upstream answer with an empty result set
NoDataStep(e) ==
    /\ e.phase = "resume"
    /\ \/ e.outcome = "null"
       \/ /\ "message" \in DOMAIN e.value
          /\ e.value.message \in {"No recruiting data found", "No games found"}

\* C11: the outcome of a call whose upstream answered with an empty result
\* set and the outcome of a call of the same function whose upstream request
\* failed are never of the same kind.
C11_NoDataDistinctFromFailure ==
    [][ ( /\ NoDataStep(last)
          /\ last'.phase = "fail"
          /\ last'.op = last.op )
        => Kind(last') # Kind(last)
      ]_vars


\* the step just taken is a getCurrentGame call of the known team that was
\* not served from a fresh current-game entry and has ended
RefreshStep ==
    /\ last'.op = "getCurrentGame"
    /\ last'.team = "oklahoma"
    /\ last'.phase \in {"call", "resume"}
    /\ last'.outcome # "pending"
    /\ ~ ( /\ CKey \in DOMAIN espnCache
           /\ last'.phase = "call"
           /\ Age(espnCache, CKey) < StatedGameTTL(espnCache[CKey].data) )
    /\ SKey \in DOMAIN espnCache'

\* the events of the schedule the refresh selected from
Listed == IF "events" \in DOMAIN espnCache'[SKey].data
            THEN espnCache'[SKey].data.events ELSE <<>>

\* the dates of the listed events upstream marks with state st
DatesOf(st) ==
    { Listed[i].date : i \in { j \in 1..Len(Listed) :
                                 /\ "status" \in DOMAIN Listed[j]
                                 /\ Listed[j].status.type.state = st } }

\* the refresh returned a listed event of state st
Selected(st) ==
    /\ last'.outcome = "value"
    /\ last'.value.status.state = st
    /\ last'.value.date \in DatesOf(st)

\* C12: on a refresh getCurrentGame returns a live event when the schedule
\* lists one, otherwise a completed event when it lists one, otherwise an
\* upcoming event when it lists one.
C12_SelectionPriority ==
    [][ RefreshStep =>
          IF DatesOf("in") # {} THEN Selected("in")
          ELSE IF DatesOf("post") # {} THEN Selected("post")
          ELSE IF DatesOf("pre") # {} THEN Selected("pre")
          ELSE last'.outcome = "null"
      ]_vars

\* C12 witness: a live event returned from a schedule that lists a completed
\* event before it
C12_Witness ==
    /\ last.op = "getCurrentGame"
    /\ last.phase = "resume"
    /\ last.outcome = "value"
    /\ last.value.status.state = "in"
    /\ SKey \in DOMAIN espnCache
    /\ espnCache[SKey].timestamp = now
    /\ Len(espnCache[SKey].data.events) = 2
    /\ "status" \in DOMAIN espnCache[SKey].data.events[1]
    /\ espnCache[SKey].data.events[1].status.type.state = "post"
    /\ espnCache[SKey].data.events[2].date = last.value.date


\* the largest and the smallest element of a set of dates
Latest(S) == CHOOSE x \in S : \A y \in S : y <= x
Earliest(S) == CHOOSE x \in S : \A y \in S : x <= y

\* C13: on a refresh from a schedule without a live event getCurrentGame
\* returns the completed event of the latest date; without a live or a
\* completed event it returns the upcoming event of the earliest date,
\* whatever the order of the list.
C13_SelectionWithinClass ==
    [][ (RefreshStep /\ DatesOf("in") = {}) =>
          IF DatesOf("post") # {}
            THEN /\ last'.outcome = "value"
                 /\ last'.value.status.state = "post"
                 /\ last'.value.date = Latest(DatesOf("post"))
          ELSE IF DatesOf("pre") # {}
            THEN /\ last'.outcome = "value"
                 /\ last'.value.status.state = "pre"
                 /\ last'.value.date = Earliest(DatesOf("pre"))
          ELSE TRUE
      ]_vars


\* the duration getCurrentGame applies to a stored game of the given state
AppliedTTL(state) == gameCacheDuration([status |-> [state |-> state]])

\* C14: the durations are ordered by volatility, live < upcoming < completed
\* and live < static, in the table of the ESPN module and as getCurrentGame
\* applies them in every reachable state; the scoreboard durations of the
\* ESPN and the NCAA module lie below those of the rankings.
C14_VolatilityOrdering ==
    /\ LIVE_GAME < UPCOMING_GAME
    /\ UPCOMING_GAME < COMPLETED_GAME
    /\ LIVE_GAME < SCHEDULE
    /\ LIVE_GAME < RANKINGS
    /\ AppliedTTL("in") < AppliedTTL("pre")
    /\ AppliedTTL("pre") < AppliedTTL("post")
    /\ AppliedTTL("in") = 60 * 1000
    /\ AppliedTTL("pre") = 6 * 60 * 60 * 1000
    /\ AppliedTTL("post") = 24 * 60 * 60 * 1000
    /\ SCOREBOARD < RANKINGS
    /\ NCAA_SCOREBOARD < NCAA_RANKINGS
    /\ \A k \in DOMAIN espnCache :
         (k[1] = "current-game" /\ last.op = "getCurrentGame"
            /\ last.phase = "call" /\ last.outcome = "value"
            /\ last.value = espnCache[k].data /\ espnCache[k].timestamp < now)
         => now - espnCache[k].timestamp < AppliedTTL(espnCache[k].data.status.state)

\* C14 witness: a completed game is served from the cache at an age at which
\* a live game has expired
C14_Witness ==
    /\ last.op = "getCurrentGame"
    /\ last.phase = "call"
    /\ last.outcome = "value"
    /\ CKey \in DOMAIN espnCache
    /\ espnCache[CKey].data.status.state = "post"
    /\ last.value = espnCache[CKey].data
    /\ now - espnCache[CKey].timestamp >= 1 * 60 * 1000
    /\ now - espnCache[CKey].timestamp < 6 * 60 * 60 * 1000


\* the key of the recruiting entry of the known team
QKey == <<"recruiting", "Oklahoma", 2025>>

\* C15: an entry is fresh exactly when now - storedAt < ttl: a getRecruiting
\* call that finds its entry at an age >= the 24 h TTL, the age equal to the
\* TTL included, is not served from the cache and goes to upstream, and one
\* that finds it younger is served from the cache.
C15_FreshnessBoundary ==
    [][ ( /\ last'.op = "getRecruiting"
          /\ last'.phase = "call"
          /\ apiKey
          /\ QKey \in DOMAIN cfbdCache )
        => IF now - cfbdCache[QKey].timestamp < 24 * 60 * 60 * 1000
             THEN last'.outcome = "value" /\ last'.value = cfbdCache[QKey].data
             ELSE last'.outcome = "pending" /\ reqs' # reqs
      ]_vars


\* the keys whose entry the step just taken has written
Written == { k \in DOMAIN espnCache' :
               k \notin DOMAIN espnCache \/ espnCache'[k] # espnCache[k] }

C17_ClearEmptiesAllStores ==
    [][ /\ last'.op = "clearCache"
             => /\ DOMAIN espnCache' = {}
                /\ DOMAIN cfbdCache' = {}
                /\ DOMAIN ncaaCache' = {}
        /\ ( /\ last.op = "clearCache"
             /\ last'.op \in {"getScoreboard", "getRecruiting", "getNCAAScoreboard"}
             /\ last'.phase = "call" )
             => /\ last'.outcome = "pending"
                /\ reqs' # reqs
      ]_vars

\* C17 witness: the operation has run while each of the three stores held an
\* entry and left all of them empty
C17_Witness ==
    /\ last.op = "clearCache"
    /\ last.value.held = 3
    /\ DOMAIN espnCache = {}
    /\ DOMAIN cfbdCache = {}
    /\ DOMAIN ncaaCache = {}


\* the events of a stored or returned schedule
Events(x) == IF "events" \in DOMAIN x THEN x.events ELSE <<>>

\* every event of the list comes from a response received at time t
AllReceivedAt(evs, t) == \A i \in 1..Len(evs) : evs[i].recv = t

\* C18: requests that find the same key absent or stale each send their own
\* upstream request, another one pending or not; a request that receives its
\* response returns that response and leaves it as the entry of the key, so
\* the entry is the response of the request that stored last; and an entry
\* is at every moment a successful upstream response for its key.
C18_RaceLastWriteWins ==
    [][ /\ ( /\ last'.op = "getTeamSchedule"
             /\ last'.team = "oklahoma"
             /\ last'.phase = "call"
             /\ (SKey \in DOMAIN espnCache => Age(espnCache, SKey) >= Day) )
           => (last'.outcome = "pending" /\ reqs' # reqs)
        /\ ( /\ last'.op = "getTeamSchedule"
             /\ last'.phase = "resume" )
           => /\ last'.outcome = "value"
              /\ AllReceivedAt(last'.value.events, now)
              /\ SKey \in DOMAIN espnCache'
              /\ espnCache'[SKey].timestamp = now
              /\ Events(espnCache'[SKey].data) = last'.value.events
        /\ ( /\ last'.op = "getCurrentGame"
             /\ last'.phase = "resume" )
           => /\ SKey \in DOMAIN espnCache'
              /\ espnCache'[SKey].timestamp = now
              /\ last'.outcome = "value"
                   => /\ last'.value.recv = now
                      /\ espnCache'[CKey] = [data |-> last'.value, timestamp |-> now]
        /\ \A k \in DOMAIN espnCache' :
             /\ k = SKey => /\ espnCache'[k].data.team = "201"
                            /\ AllReceivedAt(Events(espnCache'[k].data),
                                             espnCache'[k].timestamp)
             /\ k = CKey => espnCache'[k].data.recv <= espnCache'[k].timestamp
      ]_vars

\* C18 witness: two getTeamSchedule calls of the same team were pending at
\* once; one has received and stored its response, the other is still
\* waiting for its own
C18_Witness ==
    /\ last.op = "getTeamSchedule"
    /\ last.team = "oklahoma"
    /\ last.phase = "resume"
    /\ SKey \in DOMAIN espnCache
    /\ espnCache[SKey].timestamp = now
    /\ \E r \in Reqs : /\ reqs[r].pc = "await"
                       /\ reqs[r].fn = "getTeamSchedule"
                       /\ reqs[r].team = "oklahoma"


\* some call of function fn is waiting for upstream
Waiting(fn) == \E r \in Reqs : reqs[r].pc = "await" /\ reqs[r].fn = fn

\* some request slot is free
SomeFree == \E r \in Reqs : reqs[r].pc = "idle"

\* C19: a cache write puts data and timestamp of one response under one key
\* in one step, and only the step that handles a response writes; a step of
\* one call changes no entry of another key and no other pending call; and
\* while a schedule fetch is pending a rankings call can be made and can run
\* to completion (and the other way round).
C19_AtomicAndNonBlocking ==
    [][ /\ espnCache' # espnCache
             => /\ last'.phase = "resume"
                /\ \A k \in Written : espnCache'[k].timestamp = now
        /\ last'.op = "getTeamSchedule" => Written \subseteq {SKey}
        /\ last'.op = "getRankings" => Written \subseteq {RKey}
        /\ SKey \in DOMAIN espnCache'
             => AllReceivedAt(Events(espnCache'[SKey].data), espnCache'[SKey].timestamp)
        /\ \A r \in Reqs :
             (reqs[r].pc = "await" /\ reqs'[r] # reqs[r])
               => /\ last'.op = reqs[r].fn
                  /\ last'.phase \in {"resume", "fail"}
                  /\ \A q \in Reqs \ {r} : reqs'[q] = reqs[q]
        /\ (Waiting("getTeamSchedule") /\ SomeFree)
             => ENABLED (\E r \in Reqs : getRankings(r))
        /\ (Waiting("getRankings") /\ SomeFree)
             => ENABLED (\E r \in Reqs : getTeamSchedule(r, "oklahoma"))
        /\ Waiting("getRankings") => ENABLED (\E r \in Reqs : resumeRankings(r))
        /\ Waiting("getTeamSchedule") => ENABLED (\E r \in Reqs : resumeTeamSchedule(r))
      ]_vars

\* C19 witness: a rankings call has run to completion while a schedule fetch
\* was, and still is, pending
C19_Witness ==
    /\ last.op = "getRankings"
    /\ last.phase = "resume"
    /\ last.outcome = "value"
    /\ RKey \in DOMAIN espnCache
    /\ SKey \notin DOMAIN espnCache
    /\ Waiting("getTeamSchedule")


\* a stored scoreboard none of whose events has a state where the read-time
\* check of getScoreboard looks for it (event.status.state)
Unclassified(data) ==
    /\ "events" \in DOMAIN data
    /\ Len(data.events) > 0
    /\ \A i \in 1..Len(data.events) :
         \/ "status" \notin DOMAIN data.events[i]
         \/ "state" \notin DOMAIN data.events[i].status

\* C20: a stored scoreboard the read-time check cannot classify is given the
\* shortest TTL: it is served from the cache only while younger than the
\* 60 s of live data.
C20_UnclassifiedShortestTTL ==
    ( /\ last.op = "getScoreboard"
      /\ last.phase = "call"
      /\ last.outcome = "value"
      /\ BKey \in DOMAIN espnCache
      /\ Unclassified(espnCache[BKey].data) )
    => now - espnCache[BKey].timestamp < 1 * 60 * 1000


\* C21: CFBD data is cached 6 hours: a getRecruiting call that finds the
\* result of an earlier successful call younger than 6 h is served from the
\* cache without an upstream request, and one that finds it 6 h old or older
\* goes to upstream.
C21_CfbdSixHours ==
    [][ ( /\ last'.op = "getRecruiting"
          /\ last'.phase = "call"
          /\ apiKey
          /\ QKey \in DOMAIN cfbdCache )
        => IF now - cfbdCache[QKey].timestamp < 6 * 60 * 60 * 1000
             THEN /\ last'.outcome = "value"
                  /\ last'.value = cfbdCache[QKey].data
                  /\ reqs' = reqs
             ELSE last'.outcome = "pending" /\ reqs' # reqs
      ]_vars


\* C22: a getBettingLines call made less than 1 h after a call with the same
\* team returned its lines is served without an upstream request and returns
\* the same lines.
C22_BettingLinesCached ==
    [][ ( /\ last.op = "getBettingLines"
          /\ last.phase = "resume"
          /\ "games" \in DOMAIN last.value
          /\ last'.op = "getBettingLines"
          /\ last'.phase = "call"
          /\ last'.team = last.team )
        => /\ last'.outcome = "value"
           /\ last'.value = last.value
           /\ reqs' = reqs
      ]_vars


\* the header is missing, is not a Bearer header or carries another token
\* than the configured key
BadHeader(h) ==
    \/ h = <<>>
    \/ h[1] # "Bearer "
    \/ h[2] # "default-key-change-me"

\* the step just taken answered with the given status and success = false
\* and touched no store and no upstream request
Rejected(status) ==
    /\ last'.op = "POST /mcp"
    /\ last'.value = [status |-> status, success |-> FALSE]
    /\ espnCache' = espnCache
    /\ cfbdCache' = cfbdCache
    /\ ncaaCache' = ncaaCache
    /\ reqs' = reqs

\* C23: a POST /mcp request with a missing, non-Bearer or wrong-token
\* Authorization header is answered 401 with success = false; an
\* authenticated one without a tool or with an unknown tool is answered 400;
\* in both cases no store is read into a result or written and no upstream
\* request is sent.
C23_McpAuthentication ==
    [][ \A r \in Reqs, h \in AuthHeaders, t \in Tools :
          postMcp(r, h, t)
            => /\ BadHeader(h) => Rejected(401)
               /\ (~BadHeader(h) /\ t \notin {"get_score", "score"}) => Rejected(400)
      ]_vars

\* C23 witness: a request with a wrong token was answered 401 while the
\* store held entries and a fetch was pending
C23_Witness ==
    /\ last.op = "POST /mcp"
    /\ last.value.status = 401
    /\ last.authHeader = <<"Bearer ", "guess">>
    /\ last.tool = "get_score"
    /\ DOMAIN espnCache # {}
    /\ \E r \in Reqs : reqs[r].pc = "await"


\* C24: without a configured CFBD key every getRecruiting call ends at once
\* with an error result, no upstream request is ever pending and the CFBD
\* store stays empty.
C24_CfbdNeedsKey ==
    ~apiKey
      => /\ DOMAIN cfbdCache = {}
         /\ \A r \in Reqs : reqs[r].pc = "idle"
         /\ last.op = "getRecruiting"
              => /\ last.phase = "call"
                 /\ last.outcome = "value"
                 /\ "error" \in DOMAIN last.value
                 /\ last.value.error = TRUE

\* C24 witness: a getRecruiting call made without a key, after the clock has
\* advanced, has ended with an error result
C24_Witness ==
    /\ ~apiKey
    /\ last.op = "getRecruiting"
    /\ "error" \in DOMAIN last.value
    /\ now > 0
    /\ DOMAIN cfbdCache = {}


\* C25: every step of one provider module (a call, the handling of its
\* response or failure, its own clearCache) leaves the stores of the other
\* two provider modules as they were.
C25_IndependentStores ==
    [][ /\ last'.op \in {"getScoreboard", "clearESPNCache"}
             => cfbdCache' = cfbdCache /\ ncaaCache' = ncaaCache
        /\ last'.op \in {"getRecruiting", "clearCFBDCache"}
             => espnCache' = espnCache /\ ncaaCache' = ncaaCache
        /\ last'.op \in {"getNCAAScoreboard", "clearNCAACache"}
             => espnCache' = espnCache /\ cfbdCache' = cfbdCache
      ]_vars

\* C25 witness: the CFBD module's clearCache has emptied its store while
\* the ESPN and the NCAA store keep their entries
C25_Witness ==
    /\ last.op = "clearCFBDCache"
    /\ last.value.held = 1
    /\ DOMAIN cfbdCache = {}
    /\ DOMAIN espnCache # {}
    /\ DOMAIN ncaaCache # {}


\* the normalized game of an upstream event: its state lifted from
\* status.type.state to status.state
Normal(ev) ==
    [date |-> ev.date,
     status |-> [state |-> IF "status" \in DOMAIN ev
                             THEN ev.status.type.state ELSE "undefined"],
     recv |-> ev.recv]

\* the value a miss returns for an upstream scoreboard response
NormalBoard(data) ==
    [events |-> IF "events" \in DOMAIN data
                  THEN [i \in 1..Len(data.events) |-> Normal(data.events[i])]
                  ELSE <<>>,
     sport |-> "football"]

\* C26: the value getScoreboard returns when it serves a call from the cache
\* is the value the miss returned for the stored upstream response: all its
\* events as parsed games, with the sport.
C26_HitEqualsMiss ==
    ( /\ last.op = "getScoreboard"
      /\ last.phase = "call"
      /\ last.outcome = "value"
      /\ BKey \in DOMAIN espnCache )
    => last.value = NormalBoard(espnCache[BKey].data)


\* C27: a fetch that was in flight when the clear-cache operation ran does
\* not repopulate a store: the handling of its response right after the
\* clear leaves all three stores empty.
C27_ClearVersusInFlight ==
    [][ ( /\ last.op = "clearCache"
          /\ last'.phase = "resume" )
        => /\ DOMAIN espnCache' = {}
           /\ DOMAIN cfbdCache' = {}
           /\ DOMAIN ncaaCache' = {}
      ]_vars


\* C28: the entries of the store and their timestamps change only when the
\* response of an upstream request is stored: a step that runs a call up to
\* its return or to the sending of its upstream request (a request served
\* from a fresh entry in particular) leaves every entry there is with its
\* data and its timestamp, and so getCurrentGame never puts a new timestamp
\* on the current-game entry in such a step.
C28_ReadsDoNotRestamp ==
    [][ ( /\ last'.op \in {"getCurrentGame", "getTeamSchedule"}
          /\ last'.phase = "call" )
        => \A k \in DOMAIN espnCache :
             /\ k \in DOMAIN espnCache'
             /\ espnCache'[k].timestamp = espnCache[k].timestamp
             /\ espnCache'[k].data = espnCache[k].data
      ]_vars


\* C29: a no-data result is never kept in a store: a getRankings call that
\* follows one which ended with the no-data result (upstream answered 2xx
\* without rankings) contacts upstream again.
C29_EmptyNotCached ==
    [][ ( /\ last.op = "getRankings"
          /\ last.phase = "resume"
          /\ last.outcome = "null"
          /\ last'.op = "getRankings"
          /\ last'.phase = "call" )
        => /\ last'.outcome = "pending"
           /\ reqs' # reqs
      ]_vars


\* the number of calls waiting for upstream
Pending(rq) == Cardinality({r \in Reqs : rq[r].pc = "await"})

\* C30: every call routed to getCurrentGame ends: a call that waits for
\* upstream is eventually over, the handling of its response or failure ends
\* it in one step with one outcome (a value, the no-data result or a raised
\* error) and sends no further request, and a call sends at most one
\* upstream request.
C30_EveryRequestTerminates ==
    /\ \A r \in Reqs : (reqs[r].pc = "await") ~> (reqs[r].pc = "idle")
    /\ [][ /\ last'.phase \in {"resume", "fail"}
                => /\ last'.outcome \in {"value", "null", "throw"}
                   /\ Pending(reqs') = Pending(reqs) - 1
           /\ last'.phase = "call"
                => IF last'.outcome = "pending"
                     THEN Pending(reqs') = Pending(reqs) + 1
                     ELSE /\ last'.outcome \in {"value", "null", "throw"}
                          /\ reqs' = reqs
         ]_vars

\* C30 witness: a call that waited for upstream has ended with a raised
\* error when its request failed, and no call is waiting
C30_Witness ==
    /\ last.op = "getCurrentGame"
    /\ last.phase = "fail"
    /\ last.outcome = "throw"
    /\ DOMAIN espnCache # {}
    /\ \A r \in Reqs : reqs[r].pc = "idle"


====
